---- MODULE Spec2Model ----
(***************************************************************************)
(* Model of colrev's SimpleDedupe endpoint                                 *)
(* (src/colrev/ops/built_in/dedupe/simple_dedupe.py).                      *)
(*                                                                         *)
(* The record store is the ordered mapping returned by load_records_dict:  *)
(* a sequence of records in iteration order, the ID of a record being its  *)
(* position.  Similarity scores and thresholds are percentages             *)
(* (0.7 is 70, 0.95 is 95, 1 is 100).                                      *)
(***************************************************************************)
EXTENDS Integers, Sequences, FiniteSets, TLC

\* ---------------------------------------------------------------- bounds
MaxStore == 3
MaxContent == 2
Over == 1

\* ------------------------------------------------------ program constants
SampleSizeCeiling == 20
NA == 0

RecordState ==
    {"md_imported", "md_needs_manual_preparation", "md_prepared", "md_processed"}

Thresholds == {70, 95}

UserInputs == {"y", "n", "u"}

VARIABLES records, settings, force_mode, pc, dedupe_data, batch_data,
          dedupe_batch_results, potential_duplicates, merges_applied, commits,
          similarity_calls, labels,
          colrev_origin, removed,
          settings_arg, source,
          dblp_feed, dblp_lock, workers,
          changed_records, prior_records_dict, scope, change_diff,
          validation_details,
          revlist, target_commit, loaded_commits

\* the colrev_origin field of every record and the IDs merged away
store_vars == <<colrev_origin, removed>>

\* the settings dict handed to SimpleDedupe.__init__ and the SearchSource
\* handed to validate_source
construct_vars == <<settings_arg, source>>

\* the DBLP feed file
prep_vars == <<dblp_feed, dblp_lock, workers>>

\* the state of Validate.main
validate_vars == <<changed_records, prior_records_dict, scope, change_diff,
                   validation_details, revlist, target_commit, loaded_commits>>

\* the state of SimpleDedupe.run_dedupe
dedupe_vars == <<settings, force_mode, dedupe_data, batch_data,
                 dedupe_batch_results, potential_duplicates, merges_applied,
                 commits, similarity_calls, labels>>

vars == <<records, pc, dedupe_vars, store_vars, construct_vars, prep_vars,
          validate_vars>>

\* ---------------------------------------------------------------- helpers
Max(S) == CHOOSE x \in S : \A y \in S : y <= x

Range(s) == {s[i] : i \in 1..Len(s)}

\* position of the first occurrence of x in the sequence s (0 when absent)
IndexOf(s, x) ==
    IF \E i \in 1..Len(s) : s[i] = x
    THEN CHOOSE i \in 1..Len(s) : s[i] = x /\ \A j \in 1..(i - 1) : s[j] # x
    ELSE 0

\* colrev.record.Record.get_similarity_detailed(df_a, df_b)["score"]:
\* deterministic, in [0,1], 1 for identical content; the score of two
\* different contents is fixed by the pair.
get_similarity_detailed(df_a, df_b) ==
    LET sum == df_a.content + df_b.content IN
    CASE df_a.content = df_b.content -> 100
      [] sum = 1 -> 95
      [] sum = 2 -> 80
      [] sum = 3 -> 70
      [] OTHER -> 40

\* load_records_dict(header_only=True).values()
record_header_list(recs) ==
    [i \in 1..Len(recs) |-> [ID |-> i, colrev_status |-> recs[i].colrev_status]]

\* the condition of the ids_to_dedupe comprehension
IsToDedupe_imported(x) == x.colrev_status \in {"md_imported", "md_prepared"}

IsToDedupe(x) == x.colrev_status = "md_prepared"

\* the condition of the processed_ids comprehension
IsProcessed(x) ==
    x.colrev_status \notin
        {"md_imported", "md_prepared", "md_needs_manual_preparation"}

IDsOf(s) == [i \in 1..Len(s) |-> s[i].ID]

ids_to_dedupe(recs) == IDsOf(SelectSeq(record_header_list(recs), IsToDedupe))

processed_ids(recs) == IDsOf(SelectSeq(record_header_list(recs), IsProcessed))

\* the guard "len(ids_to_dedupe) > 20"
ExceedsSampleSize_ge(n) == n >= SampleSizeCeiling

ExceedsSampleSize(n) == n > SampleSizeCeiling

\* the dict built by __get_dedupe_data
get_dedupe_data(recs) ==
    [nr_tasks |-> Len(ids_to_dedupe(recs)),
     queue |-> processed_ids(recs) \o ids_to_dedupe(recs),
     items_start |-> Len(processed_ids(recs))]

\* records_queue -> prep_records -> records_df: the rows of the records whose
\* ID is in the queue, in the iteration order of the record store
records_df_of(recs, dd) ==
    LET rows == [i \in 1..Len(recs) |-> [ID |-> i, content |-> recs[i].content]]
        InQueue(row) == row.ID \in Range(dd.queue)
    IN SelectSeq(rows, InQueue)

\* first queue position (0-indexed) of the loop of __get_record_batch
batch_start_zero(dd) == 0

batch_start(dd) == dd.items_start

\* __get_record_batch: one item per i in range(items_start, len(queue)),
\* iloc[: i + 1] truncating at the end of the frame
get_record_batch(recs, dd) ==
    LET records_df == records_df_of(recs, dd)
        first == batch_start(dd)
        n == Len(dd.queue) - first
        iloc(m) == SubSeq(records_df, 1, IF m < Len(records_df) THEN m ELSE Len(records_df))
    IN [k \in 1..n |->
          [record |-> dd.queue[first + k],
           queue |-> iloc(first + k)]]

\* __calculate_similarities_record: every row scored against the last row
calculate_similarities_record(records_df) ==
    [i \in 1..Len(records_df) |->
        [ID |-> records_df[i].ID,
         similarity |-> get_similarity_detailed(records_df[i],
                                                records_df[Len(records_df)])]]

\* Series.idxmax(): the first row holding the maximum
idxmax(sims) ==
    LET m == Max({sims[i].similarity : i \in 1..Len(sims)}) IN
    CHOOSE i \in 1..Len(sims) :
        /\ sims[i].similarity = m
        /\ \A j \in 1..(i - 1) : sims[j].similarity # m

\* "if len(records_df.index) < 2"
IsFirstRecord(records_df) == Len(records_df) < 2

first_record_result_zero(batch_item) ==
    [ID1 |-> batch_item.record, ID2 |-> NA, similarity |-> 0,
     decision |-> "no_duplicate"]

first_record_result(batch_item) ==
    [ID1 |-> batch_item.record, ID2 |-> NA, similarity |-> 100,
     decision |-> "no_duplicate"]

\* "if max_similarity <= merging_non_dup_threshold"
IsNonDuplicate_lt(max_similarity, s) ==
    max_similarity < s.merging_non_dup_threshold

IsNonDuplicate(max_similarity, s) ==
    max_similarity <= s.merging_non_dup_threshold

\* "elif merging_non_dup_threshold < max_similarity < merging_dup_threshold"
IsPotentialDuplicate_le(max_similarity, s) ==
    /\ s.merging_non_dup_threshold < max_similarity
    /\ max_similarity <= s.merging_dup_threshold

IsPotentialDuplicate_swapped(max_similarity, s) ==
    /\ s.merging_dup_threshold < max_similarity
    /\ max_similarity < s.merging_non_dup_threshold

IsPotentialDuplicate(max_similarity, s) ==
    /\ s.merging_non_dup_threshold < max_similarity
    /\ max_similarity < s.merging_dup_threshold

\* number of get_similarity_detailed calls made by one append_merges call
nr_similarity_calls(batch_item) ==
    IF IsFirstRecord(batch_item.queue) THEN 0 ELSE Len(batch_item.queue)

append_merges(batch_item, s) ==
    IF IsFirstRecord(batch_item.queue)
    THEN first_record_result(batch_item)
    ELSE
      LET all == calculate_similarities_record(batch_item.queue)
          records_df == SubSeq(all, 1, Len(all) - 1)
          max_similarity == Max({records_df[i].similarity : i \in 1..Len(records_df)})
          other_id == records_df[idxmax(records_df)].ID
      IN IF IsNonDuplicate(max_similarity, s)
         THEN [ID1 |-> batch_item.record, ID2 |-> NA,
               similarity |-> max_similarity, decision |-> "no_duplicate"]
         ELSE IF IsPotentialDuplicate(max_similarity, s)
         THEN [ID1 |-> batch_item.record, ID2 |-> other_id,
               similarity |-> max_similarity, decision |-> "potential_duplicate"]
         ELSE [ID1 |-> batch_item.record, ID2 |-> other_id,
               similarity |-> max_similarity, decision |-> "duplicate"]

\* ------------------------------------------------------------------- Init
Record == [colrev_status : RecordState, content : 0..MaxContent]

SmallStores == UNION {[1..n -> Record] : n \in 0..MaxStore}

\* stores around the sample-size ceiling: c processed records, then n prepared
LargeStores ==
    {[i \in 1..(c + n) |->
        [colrev_status |-> IF i <= c THEN "md_processed" ELSE "md_prepared",
         content |-> i % (MaxContent + 1)]] :
     c \in 0..1, n \in (SampleSizeCeiling - 1)..(SampleSizeCeiling + Over)}

\* the origin token of the source record that record i was imported from
own_origin(i) == <<"search", i>>

\* no SearchSource is validated
NoSource ==
    [endpoint |-> "none", source_identifier_ok |-> TRUE, search_parameters |-> {},
     scope |-> {}, query_ok |-> TRUE, is_md_source |-> FALSE, is_file |-> FALSE]

\* dblp_lock holds the worker whose acquire succeeded, LockFree when the
\* lock is not held
LockFree == 0

\* the DBLP feed lock is free and no preparation worker runs
NoWorkers ==
    /\ dblp_lock = LockFree
    /\ workers = <<>>

\* target_commit = "", the default of Validate.main
EmptyTarget == 0

\* no commit list is read
NoHistory ==
    /\ revlist = <<>>
    /\ target_commit = EmptyTarget
    /\ loaded_commits = <<>>

\* Validate.main is not running
NoValidation ==
    /\ changed_records = <<>>
    /\ prior_records_dict = <<>>
    /\ scope = "none"
    /\ change_diff = <<>>
    /\ validation_details = <<>>
    /\ NoHistory

\* SimpleDedupe.run_dedupe was not called
NoDedupeRun ==
    /\ dedupe_data = [nr_tasks |-> 0, queue |-> <<>>, items_start |-> 0]
    /\ batch_data = <<>>
    /\ dedupe_batch_results = <<>>
    /\ potential_duplicates = <<>>
    /\ merges_applied = <<>>
    /\ commits = <<>>
    /\ similarity_calls = <<>>
    /\ labels = <<>>

Init ==
    /\ records \in SmallStores \cup LargeStores
    /\ settings \in [merging_non_dup_threshold : Thresholds,
                     merging_dup_threshold : Thresholds]
    /\ force_mode \in BOOLEAN
    /\ pc = "start"
    /\ dedupe_data = [nr_tasks |-> 0, queue |-> <<>>, items_start |-> 0]
    /\ batch_data = <<>>
    /\ dedupe_batch_results = <<>>
    /\ potential_duplicates = <<>>
    /\ merges_applied = <<>>
    /\ commits = <<>>
    /\ similarity_calls = <<>>
    /\ labels = <<>>
    /\ colrev_origin = [i \in 1..Len(records) |-> <<own_origin(i)>>]
    /\ removed = {}
    /\ source = NoSource
    /\ settings_arg = settings
    /\ dblp_feed = {}
    /\ NoWorkers
    /\ NoValidation

\* ------------------------------------------------- Dedupe.apply_merges
\* order of the lifecycle imported -> needs_manual_preparation | prepared
\* -> processed
Rank(status) ==
    CASE status = "md_imported" -> 0
      [] status = "md_needs_manual_preparation" -> 1
      [] status = "md_prepared" -> 2
      [] status = "md_processed" -> 3
      [] OTHER -> 4

\* advance(record, new_status): forward-only
advance(status, new_status) ==
    IF Rank(new_status) >= Rank(status) THEN new_status ELSE status

\* the record store as one value
Store == [records |-> records, colrev_origin |-> colrev_origin, removed |-> removed]

SharesOrigin(st, a, b) ==
    Range(st.colrev_origin[a]) \cap Range(st.colrev_origin[b]) # {}

\* a duplicate decision that is applied: both records are in the store and
\* share no origin token
IsApplicable_always(st, r) == r.ID1 # r.ID2

IsApplicable(st, r) ==
    /\ r.ID1 \notin st.removed
    /\ r.ID2 \notin st.removed
    /\ ~SharesOrigin(st, r.ID1, r.ID2)

\* merge of a duplicate pair: the earlier ID survives, the origins are
\* unioned, the other ID is retired, the survivor is processed
merge_duplicate(st, r) ==
    LET survivor == IF r.ID1 < r.ID2 THEN r.ID1 ELSE r.ID2
        other == IF r.ID1 < r.ID2 THEN r.ID2 ELSE r.ID1
    IN [records |->
            [st.records EXCEPT ![survivor].colrev_status =
                advance(st.records[survivor].colrev_status, "md_processed")],
        colrev_origin |->
            [st.colrev_origin EXCEPT ![survivor] =
                st.colrev_origin[survivor] \o st.colrev_origin[other]],
        removed |-> st.removed \cup {other}]

\* one decision of the results list
apply_decision(st, r) ==
    CASE r.decision = "duplicate" ->
            IF IsApplicable(st, r) THEN merge_duplicate(st, r) ELSE st
      [] r.decision = "no_duplicate" ->
            IF r.ID1 \in st.removed THEN st
            ELSE [st EXCEPT !.records[r.ID1].colrev_status =
                    advance(st.records[r.ID1].colrev_status, "md_processed")]
      [] OTHER -> st

RECURSIVE apply_merges(_, _)
apply_merges(st, results) ==
    IF results = <<>> THEN st
    ELSE apply_merges(apply_decision(st, Head(results)), Tail(results))

\* ---------------------------------------------------------------- actions
\* the record store is saved as st
StoreBecomes(st) ==
    /\ records' = st.records
    /\ colrev_origin' = st.colrev_origin
    /\ removed' = st.removed

\* run_dedupe, line 331: __get_dedupe_data returns
GetDedupeData ==
    /\ pc = "start"
    /\ ~(ExceedsSampleSize(Len(ids_to_dedupe(records))) /\ ~force_mode)
    /\ dedupe_data' = get_dedupe_data(records)
    /\ pc' = "batch"
    /\ UNCHANGED <<similarity_calls, labels, records, settings, force_mode, batch_data,
                   dedupe_batch_results, potential_duplicates,
                   merges_applied, commits>>
    /\ UNCHANGED <<construct_vars, prep_vars, validate_vars>>
    /\ UNCHANGED store_vars

\* run_dedupe, line 331: __get_dedupe_data raises CoLRevException
GetDedupeDataRaises ==
    /\ pc = "start"
    /\ ExceedsSampleSize(Len(ids_to_dedupe(records)))
    /\ ~force_mode
    /\ pc' = "raised"
    /\ UNCHANGED <<similarity_calls, labels, records, settings, force_mode, dedupe_data, batch_data,
                   dedupe_batch_results, potential_duplicates,
                   merges_applied, commits>>
    /\ UNCHANGED <<construct_vars, prep_vars, validate_vars>>
    /\ UNCHANGED store_vars

\* run_dedupe, line 337
GetRecordBatch ==
    /\ pc = "batch"
    /\ batch_data' = get_record_batch(records, dedupe_data)
    /\ pc' = "classify"
    /\ UNCHANGED <<similarity_calls, labels, records, settings, force_mode, dedupe_data,
                   dedupe_batch_results, potential_duplicates,
                   merges_applied, commits>>
    /\ UNCHANGED <<construct_vars, prep_vars, validate_vars>>
    /\ UNCHANGED store_vars

\* run_dedupe, lines 342-345: one iteration of the loop over batch_data
AppendMerges ==
    /\ pc = "classify"
    /\ Len(dedupe_batch_results) < Len(batch_data)
    /\ dedupe_batch_results' =
          Append(dedupe_batch_results,
                 append_merges(batch_data[Len(dedupe_batch_results) + 1], settings))
    /\ similarity_calls' =
          Append(similarity_calls,
                 nr_similarity_calls(batch_data[Len(dedupe_batch_results) + 1]))
    /\ UNCHANGED <<records, settings, force_mode, pc, dedupe_data, batch_data,
                   potential_duplicates, merges_applied, commits, labels>>
    /\ UNCHANGED <<construct_vars, prep_vars, validate_vars>>
    /\ UNCHANGED store_vars

batch_exhausted_early == TRUE

\* run_dedupe, lines 342-345: the loop over batch_data has ended
batch_exhausted == Len(dedupe_batch_results) = Len(batch_data)

\* run_dedupe, lines 349-351: apply_merges(results, complete_dedupe=True)
ApplyMerges ==
    /\ pc = "classify"
    /\ batch_exhausted
    /\ merges_applied' = Append(merges_applied, dedupe_batch_results)
    /\ StoreBecomes(apply_merges(Store, dedupe_batch_results))
    /\ pc' = "commit"
    /\ UNCHANGED <<similarity_calls, labels, settings, force_mode, dedupe_data, batch_data,
                   dedupe_batch_results, potential_duplicates, commits>>
    /\ UNCHANGED <<construct_vars, prep_vars, validate_vars>>

\* run_dedupe, lines 355-358
CreateCommit ==
    /\ pc = "commit"
    /\ commits' = Append(commits, "Merge duplicate records")
    /\ pc' = "label"
    /\ UNCHANGED <<similarity_calls, labels, records, settings, force_mode, dedupe_data, batch_data,
                   dedupe_batch_results, potential_duplicates, merges_applied>>
    /\ UNCHANGED <<construct_vars, prep_vars, validate_vars>>
    /\ UNCHANGED store_vars

IsPotential(r) == r.decision = "potential_duplicate"

relabel_default_yes(r, user_input) ==
    IF user_input = "n" THEN [r EXCEPT !.decision = "no_duplicate"]
    ELSE [r EXCEPT !.decision = "duplicate"]

\* the relabelling of one potential duplicate, lines 306-311
relabel(r, user_input) ==
    IF user_input = "y" THEN [r EXCEPT !.decision = "duplicate"]
    ELSE IF user_input = "n" THEN [r EXCEPT !.decision = "no_duplicate"]
    ELSE r

\* positions of the potential duplicates in dedupe_batch_results
potential_idx ==
    SelectSeq([i \in 1..Len(dedupe_batch_results) |-> i],
              LAMBDA i : IsPotential(dedupe_batch_results[i]))

\* "rec.to_dict("records")[0]" finds both records of the pair in the store
InStore(r) == r.ID1 \notin removed /\ r.ID2 \notin removed

\* dedupe_batch_results after the first n potential duplicates were labelled;
\* the dicts of potential_duplicates are the dicts of dedupe_batch_results
relabelled(user_input, n) ==
    [i \in 1..Len(dedupe_batch_results) |->
        IF IsPotential(dedupe_batch_results[i]) /\ IndexOf(potential_idx, i) <= n
        THEN relabel(dedupe_batch_results[i], user_input[IndexOf(potential_idx, i)])
        ELSE dedupe_batch_results[i]]

\* run_dedupe, lines 360-362: __process_potential_duplicates returns
ProcessPotentialDuplicates ==
    /\ pc = "label"
    /\ \A k \in 1..Len(potential_idx) : InStore(dedupe_batch_results[potential_idx[k]])
    /\ \E user_input \in [1..Len(potential_idx) -> UserInputs] :
         /\ potential_duplicates' =
               [k \in 1..Len(potential_idx) |->
                   relabel(dedupe_batch_results[potential_idx[k]], user_input[k])]
         /\ dedupe_batch_results' = relabelled(user_input, Len(potential_idx))
         /\ labels' = user_input
    /\ pc' = "apply"
    /\ UNCHANGED <<similarity_calls, records, settings, force_mode, dedupe_data,
                   batch_data, merges_applied, commits>>
    /\ UNCHANGED <<construct_vars, prep_vars, validate_vars>>
    /\ UNCHANGED store_vars

\* run_dedupe, lines 360-362: a record of a pair is no longer in the store,
\* line 297 raises IndexError after the pairs before it were labelled
ProcessPotentialDuplicatesRaises ==
    /\ pc = "label"
    /\ \E f \in 1..Len(potential_idx) :
         /\ ~InStore(dedupe_batch_results[potential_idx[f]])
         /\ \A k \in 1..(f - 1) : InStore(dedupe_batch_results[potential_idx[k]])
         /\ \E user_input \in [1..(f - 1) -> UserInputs] :
              /\ dedupe_batch_results' = relabelled(user_input, f - 1)
              /\ labels' = user_input
    /\ pc' = "raised_label"
    /\ UNCHANGED <<similarity_calls, records, settings, force_mode, dedupe_data,
                   batch_data, potential_duplicates, merges_applied, commits>>
    /\ UNCHANGED <<construct_vars, prep_vars, validate_vars>>
    /\ UNCHANGED store_vars

\* run_dedupe, line 365: apply_merges(results=potential_duplicates)
ApplyPotentialDuplicates ==
    /\ pc = "apply"
    /\ merges_applied' = Append(merges_applied, potential_duplicates)
    /\ StoreBecomes(apply_merges(Store, potential_duplicates))
    /\ pc' = "commit_labels"
    /\ UNCHANGED <<similarity_calls, labels, settings, force_mode, dedupe_data, batch_data,
                   dedupe_batch_results, potential_duplicates, commits>>
    /\ UNCHANGED <<construct_vars, prep_vars, validate_vars>>

\* run_dedupe, lines 368-373
CreateCommitLabels ==
    /\ pc = "commit_labels"
    /\ commits' = Append(commits, "Manual labeling of remaining duplicate candidates")
    /\ pc' = "done"
    /\ UNCHANGED <<similarity_calls, labels, records, settings, force_mode, dedupe_data, batch_data,
                   dedupe_batch_results, potential_duplicates, merges_applied>>
    /\ UNCHANGED <<construct_vars, prep_vars, validate_vars>>
    /\ UNCHANGED store_vars

Next ==
    \/ GetDedupeData
    \/ GetDedupeDataRaises
    \/ GetRecordBatch
    \/ AppendMerges
    \/ ApplyMerges
    \/ CreateCommit
    \/ ProcessPotentialDuplicates
    \/ ProcessPotentialDuplicatesRaises
    \/ ApplyPotentialDuplicates
    \/ CreateCommitLabels

Spec == Init /\ [][Next]_vars


\* ------------------------------------------------------- claim vocabulary
\* the pending part of the dedup queue
PendingIds ==
    {dedupe_data.queue[j] :
        j \in (dedupe_data.items_start + 1)..Len(dedupe_data.queue)}

\* position (from 1) of a record id in the dedup queue
QueuePos(id) == IndexOf(dedupe_data.queue, id)

\* true while the decisions are as append_merges returned them
Classifying == pc = "classify"

Frame(k) == batch_data[k].queue

\* the comparison set of the k-th append_merges call: the rows of its frame
\* before the last row
Candidates(k) == 1..(Len(Frame(k)) - 1)

\* score of row j of the k-th frame against the last row of that frame
SimTo(k, j) == get_similarity_detailed(Frame(k)[j], Frame(k)[Len(Frame(k))])

\* m is the maximum similarity over the comparison set of the k-th call
MaxIs(k, m) ==
    /\ \E j \in Candidates(k) : SimTo(k, j) = m
    /\ \A j \in Candidates(k) : SimTo(k, j) <= m

\* the decision names a candidate that achieves the similarity it reports
NamesAMaximum(k) ==
    \E j \in Candidates(k) :
        /\ Frame(k)[j].ID = dedupe_batch_results[k].ID2
        /\ SimTo(k, j) = dedupe_batch_results[k].similarity

Returned == 1..Len(dedupe_batch_results)

\* C1: for every pending record at queue position i, the frame handed to
\* append_merges holds exactly the records at queue positions <= i and its
\* last row is the pending record itself, whatever the order of the store.
C1_FrameIsQueuePrefix ==
    \A k \in 1..Len(batch_data) :
        LET i == dedupe_data.items_start + k IN
        /\ {Frame(k)[j].ID : j \in 1..Len(Frame(k))} =
              {dedupe_data.queue[j] : j \in 1..i}
        /\ Frame(k)[Len(Frame(k))].ID = batch_data[k].record
        /\ batch_data[k].record = dedupe_data.queue[i]

\* C2: with a non-empty comparison set whose maximum similarity is at most
\* merging_non_dup_threshold, append_merges returns no_duplicate with
\* ID2 = NA and the maximum as similarity.
C2_NonDuplicate ==
    \A k \in Returned :
        (/\ Classifying
         /\ Candidates(k) # {}
         /\ \A j \in Candidates(k) :
               SimTo(k, j) <= settings.merging_non_dup_threshold)
        => /\ dedupe_batch_results[k].decision = "no_duplicate"
           /\ dedupe_batch_results[k].ID1 = batch_data[k].record
           /\ dedupe_batch_results[k].ID2 = NA
           /\ MaxIs(k, dedupe_batch_results[k].similarity)

C2_Witness ==
    /\ Classifying
    /\ \E k \in Returned :
         /\ Len(Frame(k)) >= 3
         /\ \A j \in Candidates(k) :
               SimTo(k, j) <= settings.merging_non_dup_threshold
         /\ \E j \in Candidates(k) :
               SimTo(k, j) < settings.merging_non_dup_threshold
         /\ dedupe_batch_results[k].decision = "no_duplicate"

\* C3 (as claimed): a maximum similarity exactly equal to
\* merging_non_dup_threshold is classified potential_duplicate.
C3_BoundaryPotential ==
    \A k \in Returned :
        (/\ Classifying
         /\ Candidates(k) # {}
         /\ MaxIs(k, settings.merging_non_dup_threshold))
        => dedupe_batch_results[k].decision = "potential_duplicate"

\* C3 (amended): a maximum similarity exactly equal to
\* merging_non_dup_threshold is classified no_duplicate.
C3_BoundaryNonDuplicate ==
    \A k \in Returned :
        (/\ Classifying
         /\ Candidates(k) # {}
         /\ MaxIs(k, settings.merging_non_dup_threshold))
        => dedupe_batch_results[k].decision = "no_duplicate"

C3_Witness ==
    /\ Classifying
    /\ settings.merging_non_dup_threshold < settings.merging_dup_threshold
    /\ \E k \in Returned :
         /\ Candidates(k) # {}
         /\ MaxIs(k, settings.merging_non_dup_threshold)

\* C4 (as claimed): with a non-empty comparison set whose maximum similarity
\* is at least merging_dup_threshold, append_merges returns duplicate, ID2 a
\* candidate achieving the maximum, similarity the maximum.
C4_Duplicate ==
    \A k \in Returned :
        (/\ Classifying
         /\ Candidates(k) # {}
         /\ \E j \in Candidates(k) :
               SimTo(k, j) >= settings.merging_dup_threshold)
        => /\ dedupe_batch_results[k].decision = "duplicate"
           /\ dedupe_batch_results[k].ID1 = batch_data[k].record
           /\ NamesAMaximum(k)
           /\ MaxIs(k, dedupe_batch_results[k].similarity)

\* C4 (amended): the same, for a maximum similarity that is at least
\* merging_dup_threshold and greater than merging_non_dup_threshold.
C4_DuplicateAboveBoth ==
    \A k \in Returned :
        (/\ Classifying
         /\ Candidates(k) # {}
         /\ \E j \in Candidates(k) :
               /\ SimTo(k, j) >= settings.merging_dup_threshold
               /\ SimTo(k, j) > settings.merging_non_dup_threshold)
        => /\ dedupe_batch_results[k].decision = "duplicate"
           /\ dedupe_batch_results[k].ID1 = batch_data[k].record
           /\ NamesAMaximum(k)
           /\ MaxIs(k, dedupe_batch_results[k].similarity)

\* the boundary: the maximum equals merging_dup_threshold
C4_Witness ==
    /\ Classifying
    /\ settings.merging_non_dup_threshold < settings.merging_dup_threshold
    /\ \E k \in Returned :
         /\ Len(Frame(k)) >= 3
         /\ MaxIs(k, settings.merging_dup_threshold)
         /\ dedupe_batch_results[k].decision = "duplicate"

\* the maximum similarity of the k-th call lies strictly between the thresholds
StrictlyBetween(k) ==
    /\ Candidates(k) # {}
    /\ \A j \in Candidates(k) : SimTo(k, j) < settings.merging_dup_threshold
    /\ \E j \in Candidates(k) : SimTo(k, j) > settings.merging_non_dup_threshold

\* C5: with a non-empty comparison set whose maximum similarity lies
\* strictly between the two thresholds, append_merges returns
\* potential_duplicate with ID2 a candidate achieving the maximum, and never
\* duplicate.
C5_PotentialDuplicate ==
    \A k \in Returned :
        (Classifying /\ StrictlyBetween(k))
        => /\ dedupe_batch_results[k].decision = "potential_duplicate"
           /\ dedupe_batch_results[k].decision # "duplicate"
           /\ dedupe_batch_results[k].ID1 = batch_data[k].record
           /\ NamesAMaximum(k)
           /\ MaxIs(k, dedupe_batch_results[k].similarity)

C5_Witness ==
    /\ Classifying
    /\ \E k \in Returned :
         /\ Len(Frame(k)) >= 3
         /\ StrictlyBetween(k)
         /\ dedupe_batch_results[k].decision = "potential_duplicate"

\* C6: when several candidates of the comparison set have the same maximum
\* similarity, the candidate reported as ID2 is the one at the earliest
\* queue position among them.
C6_TieEarliestQueued ==
    \A k \in Returned :
        (Classifying /\ dedupe_batch_results[k].ID2 # NA)
        => \A j \in Candidates(k) :
              SimTo(k, j) = dedupe_batch_results[k].similarity
              => QueuePos(dedupe_batch_results[k].ID2) <= QueuePos(Frame(k)[j].ID)

\* C7: when the record is the only row of its frame, append_merges returns
\* no_duplicate with ID2 = NA and similarity 1 and computes no similarity.
C7_FirstRecord ==
    \A k \in Returned :
        (Classifying /\ Len(Frame(k)) = 1)
        => /\ dedupe_batch_results[k] =
                 [ID1 |-> batch_data[k].record, ID2 |-> NA,
                  similarity |-> 100, decision |-> "no_duplicate"]
           /\ similarity_calls[k] = 0

C7_Witness ==
    /\ Classifying
    /\ Len(dedupe_batch_results) >= 2
    /\ Len(Frame(1)) = 1

\* the store is as __get_dedupe_data read it until the first apply_merges
DataLoaded == pc \in {"batch", "classify"}

\* C8 (as claimed): a record is in the pending part of the queue iff its
\* status is imported or prepared.
C8_PendingIffImportedOrPrepared ==
    DataLoaded =>
        \A id \in 1..Len(records) :
            id \in PendingIds
            <=> records[id].colrev_status \in {"md_imported", "md_prepared"}

\* C8 (amended): a record is in the pending part of the queue iff its status
\* is prepared.
C8_PendingIffPrepared ==
    DataLoaded =>
        /\ \A id \in 1..Len(records) :
              id \in PendingIds <=> records[id].colrev_status = "md_prepared"
        /\ dedupe_data.nr_tasks = Cardinality(PendingIds)

C8_Witness ==
    /\ pc = "batch"
    /\ \E a, b, c \in 1..Len(records) :
         /\ records[a].colrev_status = "md_imported"
         /\ records[b].colrev_status = "md_prepared"
         /\ records[c].colrev_status = "md_processed"
         /\ b \in PendingIds

\* every record of the batch was classified, no merge is applied yet
ClassificationDone ==
    pc = "classify" /\ Len(dedupe_batch_results) = Len(batch_data)

\* C9: a run produces exactly one decision per pending record, in queue
\* order, and never a decision whose ID1 is a context record.
C9_OneDecisionPerPending ==
    /\ Classifying \/ ClassificationDone =>
          \A k \in Returned :
              /\ dedupe_batch_results[k].ID1 =
                    dedupe_data.queue[dedupe_data.items_start + k]
              /\ records[dedupe_batch_results[k].ID1].colrev_status = "md_prepared"
              /\ ~IsProcessed(records[dedupe_batch_results[k].ID1])
    /\ ClassificationDone =>
          /\ Len(dedupe_batch_results) =
                Cardinality({id \in 1..Len(records) :
                                records[id].colrev_status = "md_prepared"})
          /\ \A id \in 1..Len(records) :
                records[id].colrev_status = "md_prepared"
                => \E k \in Returned : dedupe_batch_results[k].ID1 = id

C9_Witness ==
    /\ ClassificationDone
    /\ Len(dedupe_batch_results) >= 2
    /\ \E k \in Returned :
         /\ dedupe_batch_results[k].ID2 # NA
         /\ IsProcessed(records[dedupe_batch_results[k].ID2])

NrPrepared ==
    Cardinality({id \in 1..Len(records) :
                    records[id].colrev_status = "md_prepared"})

NothingDone ==
    /\ dedupe_batch_results = <<>>
    /\ similarity_calls = <<>>
    /\ merges_applied = <<>>
    /\ commits = <<>>

\* C10: with more than 20 pending records and force mode off, run_dedupe
\* raises before any record is classified, no merge is applied and no commit
\* is created; with exactly 20 pending records, or with force mode on, the
\* run proceeds.
C10_SampleSizeGuard ==
    /\ (NrPrepared > 20 /\ ~force_mode) =>
          /\ pc \in {"start", "raised"}
          /\ NothingDone
          /\ pc = "start" => ~ENABLED GetDedupeData
    /\ (NrPrepared <= 20 \/ force_mode) =>
          /\ pc # "raised"
          /\ pc = "start" => ENABLED GetDedupeData

C10_Witness ==
    /\ pc = "raised"
    /\ NrPrepared = 21
    /\ NothingDone

\* the decisions as the first apply_merges call of the run received them
FirstResults == merges_applied[1]

\* the positions of the potential duplicates among them
WasPotential ==
    SelectSeq([i \in 1..Len(FirstResults) |-> i],
              LAMBDA i : IsPotential(FirstResults[i]))

\* __process_potential_duplicates has returned
Labelled == pc \in {"apply", "commit_labels", "done"}

LabelledAs(k, decision) ==
    /\ potential_duplicates[k] = [FirstResults[WasPotential[k]] EXCEPT !.decision = decision]
    /\ dedupe_batch_results[WasPotential[k]] = potential_duplicates[k]

\* the k-th labelled pair was answered 'y' and id is one of its records
AcceptedPairOf(id) ==
    \E k \in 1..Len(labels) :
        /\ labels[k] = "y"
        /\ id \in {potential_duplicates[k].ID1, potential_duplicates[k].ID2}

\* C13, the decisions: after labelling, a decision that was
\* potential_duplicate is duplicate iff the answer was 'y', no_duplicate iff
\* the answer was 'n', and still potential_duplicate for any other answer;
\* the other decisions are as they were.
C13_Decisions ==
    Labelled =>
        /\ Len(labels) = Len(WasPotential)
        /\ Len(potential_duplicates) = Len(WasPotential)
        /\ \A k \in 1..Len(WasPotential) :
              CASE labels[k] = "y" -> LabelledAs(k, "duplicate")
                [] labels[k] = "n" -> LabelledAs(k, "no_duplicate")
                [] OTHER -> LabelledAs(k, "potential_duplicate")
        /\ \A i \in 1..Len(FirstResults) :
              ~IsPotential(FirstResults[i]) => dedupe_batch_results[i] = FirstResults[i]

\* C13, the merges: the apply_merges call after labelling retires a record
\* or changes an origin list only for a pair that was answered 'y'.
C13_Merges ==
    (pc = "apply" /\ pc' = "commit_labels") =>
        /\ \A id \in removed' \ removed : AcceptedPairOf(id)
        /\ \A id \in 1..Len(records) :
              colrev_origin'[id] # colrev_origin[id] => AcceptedPairOf(id)

\* C13: after interactive labelling a potential duplicate becomes duplicate
\* only on 'y' and no_duplicate only on 'n'; on any other answer it stays
\* potential_duplicate and the pair is not merged.
C13_NoSilentDefault == []C13_Decisions /\ [][C13_Merges]_vars

C13_Witness ==
    /\ pc = "commit_labels"
    /\ \E k \in 1..Len(labels) :
         /\ labels[k] = "u"
         /\ IsPotential(potential_duplicates[k])
         /\ potential_duplicates[k].ID1 # potential_duplicates[k].ID2
         /\ potential_duplicates[k].ID1 \notin removed
         /\ potential_duplicates[k].ID2 \notin removed
         /\ Len(colrev_origin[potential_duplicates[k].ID1]) = 1
         /\ Len(colrev_origin[potential_duplicates[k].ID2]) = 1

\* C14 (as claimed): while a potential duplicate of the run is not labelled
\* and no decision of the run is duplicate, no merge is applied (no record
\* retired, no origin added) and no commit is created.
C14_StoreUnchangedUntilLabelled ==
    ( /\ pc \in {"classify", "commit", "label"}
      /\ \E k \in 1..Len(dedupe_batch_results) : IsPotential(dedupe_batch_results[k])
      /\ \A k \in 1..Len(dedupe_batch_results) :
            dedupe_batch_results[k].decision # "duplicate" ) =>
        /\ removed = {}
    /\ source = NoSource
        /\ \A id \in 1..Len(records) : colrev_origin[id] = <<own_origin(id)>>
        /\ commits = <<>>

\* C15: applying a list of decisions that was applied leaves the store as it
\* is: after the first apply_merges call of a run, after the second, and for
\* the decisions of both calls together.
C15_ApplyIdempotent ==
    /\ pc \in {"commit", "label"} =>
          apply_merges(Store, merges_applied[1]) = Store
    /\ pc \in {"commit_labels", "done"} =>
          /\ apply_merges(Store, merges_applied[2]) = Store
          /\ apply_merges(Store, merges_applied[1] \o merges_applied[2]) = Store

C15_Witness ==
    /\ pc = "done"
    /\ \E k \in 1..Len(merges_applied[2]) :
         LET r == merges_applied[2][k]
         IN /\ r.decision = "duplicate"
            /\ r.ID1 # r.ID2
            /\ Max({r.ID1, r.ID2}) \in removed
            /\ Len(colrev_origin[IF r.ID1 < r.ID2 THEN r.ID1 ELSE r.ID2]) >= 2

\* ------------------------------------------------ SimpleDedupe.__init__
\* the interval the thresholds are asserted to lie in, as percentages
ThresholdFloor == 0
ThresholdCeiling == 100

\* threshold values of a settings dict, inside, on and outside the interval
ThresholdArgs == {-100, -1, 0, 70, 95, 100, 101, 200}

\* SimpleDedupeSettings, the defaults of the dataclass
SettingsDefaults ==
    [merging_non_dup_threshold |-> 70, merging_dup_threshold |-> 95]

InRange_no_upper(t) == t >= ThresholdFloor

\* the two asserts on one threshold
InRange(t) == t >= ThresholdFloor /\ t <= ThresholdCeiling

\* the four asserts of __init__
asserts_hold(s) ==
    /\ InRange(s.merging_non_dup_threshold)
    /\ InRange(s.merging_dup_threshold)

InitConstruct ==
    /\ records = <<>>
    /\ settings = SettingsDefaults
    /\ settings_arg \in [merging_non_dup_threshold : ThresholdArgs,
                        merging_dup_threshold : ThresholdArgs]
    /\ force_mode = FALSE
    /\ pc = "new"
    /\ NoDedupeRun
    /\ colrev_origin = <<>>
    /\ removed = {}
    /\ source = NoSource
    /\ dblp_feed = {}
    /\ NoWorkers
    /\ NoValidation

\* __init__ returns: from_dict stores the settings, the asserts hold
Construct ==
    /\ pc = "new"
    /\ asserts_hold(settings_arg)
    /\ settings' = settings_arg
    /\ pc' = "constructed"
    /\ UNCHANGED <<records, force_mode, dedupe_data, batch_data,
                   dedupe_batch_results, potential_duplicates, merges_applied,
                   commits, similarity_calls, labels>>
    /\ UNCHANGED <<store_vars, construct_vars, prep_vars, validate_vars>>

\* __init__ raises AssertionError, no object is constructed
ConstructFails ==
    /\ pc = "new"
    /\ ~asserts_hold(settings_arg)
    /\ pc' = "AssertionError"
    /\ UNCHANGED <<records, dedupe_vars>>
    /\ UNCHANGED <<store_vars, construct_vars, prep_vars, validate_vars>>

NextConstruct ==
    \/ Construct
    \/ ConstructFails

SpecConstruct == InitConstruct /\ [][NextConstruct]_vars

\* C11: constructing SimpleDedupe with a threshold outside [0,1] fails at
\* construction time; the object that is constructed holds the thresholds
\* of the settings dict, unchanged and inside [0,1].
C11_OutOfRangeFails ==
    /\ pc = "constructed" =>
          /\ settings = settings_arg
          /\ settings.merging_non_dup_threshold \in ThresholdFloor..ThresholdCeiling
          /\ settings.merging_dup_threshold \in ThresholdFloor..ThresholdCeiling
    /\ pc = "AssertionError" =>
          \E t \in {settings_arg.merging_non_dup_threshold,
                    settings_arg.merging_dup_threshold} :
              t < ThresholdFloor \/ t > ThresholdCeiling
    /\ pc \in {"new", "constructed", "AssertionError"}

C11_Witness ==
    /\ pc = "AssertionError"
    /\ settings_arg.merging_non_dup_threshold = 70
    /\ settings_arg.merging_dup_threshold = 101

\* C12 (as claimed): a SimpleDedupe that was constructed never has
\* merging_non_dup_threshold > merging_dup_threshold.
C12_InvertedFails ==
    pc = "constructed" =>
        settings.merging_non_dup_threshold <= settings.merging_dup_threshold

\* ------------------------------- DBLPSearchSource.get_masterdata_from_dblp
\* and prep_man.set_data
MaxPrepStore == 2
MaxDblp == 2

\* the entries DBLP can return for a query
DblpEntries == 1..MaxDblp

\* the colrev_origin token of a DBLP entry in the DBLP feed
dblp_origin(k) == <<"dblp", k>>

\* line 631: an origin of the record has the origin prefix of the DBLP source
LinkedToDblp(i) == \E o \in Range(colrev_origin[i]) : o[1] = "dblp"

\* Record.merge: the origins of the merging record are added to the record
merge(origins, merging_origins) ==
    origins \o SelectSeq(merging_origins, LAMBDA o : o \notin Range(origins))

PrepStores ==
    UNION {[1..n -> [colrev_status : RecordState, content : {0}]] :
              n \in 1..MaxPrepStore}

InitPrep ==
    /\ records \in PrepStores
    /\ settings = SettingsDefaults
    /\ settings_arg = SettingsDefaults
    /\ force_mode = FALSE
    /\ pc = "prep"
    /\ NoDedupeRun
    /\ colrev_origin = [i \in 1..Len(records) |-> <<own_origin(i)>>]
    /\ removed = {}
    /\ source = NoSource
    /\ dblp_feed = {}
    /\ NoWorkers
    /\ NoValidation

\* get_masterdata_from_dblp, lines 652-697: entry k is the first retrieved
\* record whose similarity exceeds the retrieval similarity
GetMasterdataFromDblp ==
  \E i \in 1..Len(records), k \in DblpEntries, withdrawn \in BOOLEAN :
    /\ i \notin removed
    /\ ~LinkedToDblp(i)
    /\ dblp_feed' = dblp_feed \cup {k}
    /\ colrev_origin' =
          [colrev_origin EXCEPT ![i] = merge(colrev_origin[i], <<dblp_origin(k)>>)]
    /\ records' =
          [records EXCEPT ![i].colrev_status =
              IF withdrawn THEN "rev_prescreen_excluded"
              ELSE advance(records[i].colrev_status, "md_prepared")]
    /\ UNCHANGED <<pc, removed, dedupe_vars, construct_vars, validate_vars,
                   dblp_lock, workers>>

\* set_data, lines 181-207
SetData ==
  \E i \in 1..Len(records) :
    /\ i \notin removed
    /\ records' = [records EXCEPT ![i].colrev_status = "md_prepared"]
    /\ UNCHANGED <<pc, dedupe_vars, store_vars, construct_vars, prep_vars,
                   validate_vars>>

\* the application of a duplicate decision for the prepared record a
MergeDuplicate ==
  \E a, b \in 1..Len(records) :
    LET r == [ID1 |-> a, ID2 |-> b, similarity |-> 100, decision |-> "duplicate"]
    IN /\ a # b
       /\ a \notin removed
       /\ b \notin removed
       /\ records[a].colrev_status = "md_prepared"
       /\ StoreBecomes(apply_merges(Store, <<r>>))
       /\ UNCHANGED <<pc, dedupe_vars, construct_vars, prep_vars, validate_vars>>

NextPrep ==
    \/ GetMasterdataFromDblp
    \/ SetData
    \/ MergeDuplicate

SpecPrep == InitPrep /\ [][NextPrep]_vars

\* C16 (as claimed): after any sequence of enrichments and merges no two
\* distinct current records carry the same origin token.
C16_OriginsDisjoint ==
    \A a, b \in (1..Len(records)) \ removed :
        a # b => Range(colrev_origin[a]) \cap Range(colrev_origin[b]) = {}

\* C17 (as claimed): no step of enrichment, manual preparation or merge
\* application moves the status of a record backward in the lifecycle.
C17_StatusForward ==
    [][\A i \in 1..Len(records) :
          Rank(records'[i].colrev_status) >= Rank(records[i].colrev_status)]_vars

\* ------------------------------------------------------------- Validate
MaxChanged == 2

\* the origin tokens of the search sources
OriginTokens == <<"sourceA/1", "sourceB/7", "sourceC/3">>

\* colrev_origin lists of a current record: one origin, or two for a merged
\* record
OriginLists ==
    {<<OriginTokens[i]>> : i \in 1..Len(OriginTokens)}
    \cup {<<OriginTokens[ij[1]], OriginTokens[ij[2]]>> :
            ij \in {p \in (1..Len(OriginTokens)) \X (1..Len(OriginTokens)) :
                        p[1] < p[2]}}

\* the records of the snapshot before the target commit: one standalone
\* record per origin token
PriorRecords ==
    [i \in 1..Len(OriginTokens) |->
        [ID |-> i, colrev_origin |-> <<OriginTokens[i]>>,
         content |-> (i - 1) % (MaxContent + 1)]]

\* a prior record that carries the first origin token as well
SecondCarrier ==
    [ID |-> Len(OriginTokens) + 1, colrev_origin |-> <<OriginTokens[1]>>,
     content |-> MaxContent]

\* the snapshots before the target commit: with and without a second carrier
PriorSnapshots == {PriorRecords, Append(PriorRecords, SecondCarrier)}

\* load_changed_records: the current records; changed_in_target_commit is
\* TRUE while the dict has that key, colrev_status is "" once the key is
\* deleted
ChangedRecords ==
    UNION {[1..n -> [colrev_origin : OriginLists, content : 0..MaxContent,
                     changed_in_target_commit : BOOLEAN,
                     colrev_status : {"md_processed"}]] : n \in 1..MaxChanged}

\* colrev.record.Record.get_record_similarity
get_record_similarity(record_a, record_b) ==
    get_similarity_detailed(record_a, record_b)

RECURSIVE Concat(_)
Concat(seqs) ==
    IF seqs = <<>> THEN <<>> ELSE Head(seqs) \o Concat(Tail(seqs))

\* [x for x in prior_records_dict.values() if token in x["colrev_origin"]]
prior_records_with(token) ==
    SelectSeq(prior_records_dict, LAMBDA x : token \in Range(x.colrev_origin))

\* validate_preparation_changes, line 61
prep_del(record_dict) ==
    [record_dict EXCEPT !.changed_in_target_commit = FALSE, !.colrev_status = ""]

\* validate_preparation_changes, lines 63-77, for one changed record
prep_diff(record_dict) ==
    Concat([l \in 1..Len(record_dict.colrev_origin) |->
        LET prior_records == prior_records_with(record_dict.colrev_origin[l])
        IN [p \in 1..Len(prior_records) |->
               [e1 |-> prior_records[p], e2 |-> prep_del(record_dict),
                similarity |->
                    get_record_similarity(prep_del(record_dict), prior_records[p])]]])

\* itertools.combinations(els, 2)
combinations(els) ==
    Concat([i \in 1..Len(els) |->
        [d \in 1..(Len(els) - i) |-> <<els[i], els[i + d]>>]])

\* validate_merging_changes, line 99: ";" in record["colrev_origin"], the
\* membership test of a list
has_merged_origins(record) == ";" \in Range(record.colrev_origin)

\* validate_merging_changes, lines 101-119, for one changed record
merge_diff(record) ==
    IF has_merged_origins(record)
    THEN LET duplicate_el_pairs == combinations(record.colrev_origin)
         IN [q \in 1..Len(duplicate_el_pairs) |->
               LET record_1 == prior_records_with(duplicate_el_pairs[q][1])
                   record_2 == prior_records_with(duplicate_el_pairs[q][2])
               IN [e1 |-> record_1[1], e2 |-> record_2[1],
                   similarity |-> get_record_similarity(record_1[1], record_2[1])]]
    ELSE <<>>

IsReported_le(x) == x.similarity <= 100

\* lines 79 and 121: if sim < 1
IsReported(x) == x.similarity < 100

\* the place of x in a list sorted with reverse=True: behind the entries
\* that are not smaller (the sort is stable)
insert_reverse(sorted, x) ==
    LET p == Cardinality({i \in 1..Len(sorted) :
                             sorted[i].similarity >= x.similarity})
    IN SubSeq(sorted, 1, p) \o <<x>> \o SubSeq(sorted, p + 1, Len(sorted))

\* change_diff.sort(key=lambda x: x[2], reverse=True)
RECURSIVE sort_reverse(_)
sort_reverse(diff) ==
    IF diff = <<>> THEN <<>>
    ELSE insert_reverse(sort_reverse(SubSeq(diff, 1, Len(diff) - 1)),
                        diff[Len(diff)])

Changed_always(record) == TRUE

\* lines 59 and 95: "changed_in_target_commit" in record
Changed(record) == record.changed_in_target_commit

InitValidate ==
    /\ records = <<>>
    /\ settings = SettingsDefaults
    /\ settings_arg = SettingsDefaults
    /\ force_mode = FALSE
    /\ pc = "main"
    /\ NoDedupeRun
    /\ colrev_origin = <<>>
    /\ removed = {}
    /\ source = NoSource
    /\ dblp_feed = {}
    /\ NoWorkers
    /\ changed_records \in ChangedRecords
    /\ prior_records_dict \in PriorSnapshots
    /\ scope \in {"prepare", "merge", "all"}
    /\ change_diff = <<>>
    /\ validation_details = <<>>
    /\ NoHistory

\* main, lines 252-255: validate_preparation_changes
ValidatePreparationChanges ==
    /\ pc = "main"
    /\ scope \in {"prepare", "all"}
    /\ LET diff == Concat([r \in 1..Len(changed_records) |->
                      IF Changed(changed_records[r])
                      THEN prep_diff(changed_records[r]) ELSE <<>>])
       IN /\ change_diff' = diff
          /\ validation_details' = sort_reverse(SelectSeq(diff, IsReported))
    /\ changed_records' =
          [r \in 1..Len(changed_records) |->
              IF Changed(changed_records[r])
              THEN prep_del(changed_records[r]) ELSE changed_records[r]]
    /\ pc' = IF scope = "all" THEN "prepared" ELSE "returned"
    /\ UNCHANGED <<records, dedupe_vars, store_vars, construct_vars, prep_vars,
                   prior_records_dict, scope, revlist, target_commit,
                   loaded_commits>>

\* main, lines 257-260: validate_merging_changes
ValidateMergingChanges ==
    /\ \/ pc = "main" /\ scope = "merge"
       \/ pc = "prepared"
    /\ LET diff == Concat([r \in 1..Len(changed_records) |->
                      IF Changed(changed_records[r])
                      THEN merge_diff(changed_records[r]) ELSE <<>>])
       IN /\ change_diff' = diff
          /\ validation_details' = sort_reverse(SelectSeq(diff, IsReported))
    /\ changed_records' =
          [r \in 1..Len(changed_records) |->
              [changed_records[r] EXCEPT !.changed_in_target_commit = FALSE]]
    /\ pc' = "returned"
    /\ UNCHANGED <<records, dedupe_vars, store_vars, construct_vars, prep_vars,
                   prior_records_dict, scope, revlist, target_commit,
                   loaded_commits>>

NextValidate ==
    \/ ValidatePreparationChanges
    \/ ValidateMergingChanges

SpecValidate == InitValidate /\ [][NextValidate]_vars

\* a validation pass has returned its list
Validated == pc \in {"prepared", "returned"}

\* C18: both validation modes return only triples whose similarity is
\* strictly less than 1, sorted by similarity in non-increasing order.
C18_FilteredAndSorted ==
    Validated =>
        /\ \A i \in 1..Len(validation_details) :
              validation_details[i].similarity < 100
        /\ \A i, j \in 1..Len(validation_details) :
              i < j => validation_details[i].similarity
                          >= validation_details[j].similarity

C18_Witness ==
    /\ pc = "returned"
    /\ scope = "prepare"
    /\ \E x \in Range(change_diff) : x.similarity = 100
    /\ \E i, j \in 1..Len(change_diff) :
         /\ i < j
         /\ change_diff[i].similarity < change_diff[j].similarity
         /\ change_diff[j].similarity < 100
    /\ Len(validation_details) >= 2
    /\ validation_details[1].similarity
          > validation_details[Len(validation_details)].similarity

\* the prior record that carries an origin token
prior_of(token) == prior_records_with(token)[1]

\* the triple of two origin tokens of a merged record
PairOf(els) ==
    [e1 |-> prior_of(els[1]), e2 |-> prior_of(els[2]),
     similarity |-> get_record_similarity(prior_of(els[1]), prior_of(els[2]))]

\* merge validation runs alone, on the records as they were loaded
MergeValidationStep == pc = "main" /\ scope = "merge" /\ pc' = "returned"

IsMergeResult(record) == Changed(record) /\ Len(record.colrev_origin) > 1

\* C19 (as claimed): when merge validation gets two changed merged records
\* whose originals score differently, below 1, the result lists the pair
\* with the lower score before the pair with the higher score.
C19_LowScoreRankedAbove ==
    [][MergeValidationStep =>
        \A x, y \in 1..Len(changed_records) :
            LET low == PairOf(changed_records[x].colrev_origin)
                high == PairOf(changed_records[y].colrev_origin)
            IN ( /\ IsMergeResult(changed_records[x])
                 /\ IsMergeResult(changed_records[y])
                 /\ low.similarity < high.similarity
                 /\ high.similarity < 100 ) =>
               \E i, j \in 1..Len(validation_details') :
                   /\ i < j
                   /\ validation_details'[i] = low
                   /\ validation_details'[j] = high]_vars

\* the pairs of origin tokens merge validation is to score
ExpectedPairs ==
    Concat([r \in 1..Len(changed_records) |->
        IF IsMergeResult(changed_records[r])
        THEN combinations(changed_records[r].colrev_origin) ELSE <<>>])

\* C20 (as claimed): merge validation scores exactly the unordered pairs of
\* origin tokens of every changed record with more than one origin, each
\* token resolved to the prior record that carries it, and no other pair.
C20_AllOriginPairsScored ==
    [][MergeValidationStep =>
        /\ Len(change_diff') = Len(ExpectedPairs)
        /\ \A k \in 1..Len(ExpectedPairs) :
              change_diff'[k] = PairOf(ExpectedPairs[k])]_vars

\* preparation validation runs, on the records as they were loaded
PrepValidationStep == pc = "main" /\ pc' \in {"prepared", "returned"} /\ scope # "merge"

\* the (record, origin token) places of the changed records whose token the
\* prior record p carries and whose dict, as the pass leaves it, is d
ScoredPlaces(p, d) ==
    {rl \in (1..Len(changed_records)) \X (1..Len(OriginTokens)) :
        /\ changed_records[rl[1]].changed_in_target_commit
        /\ prep_del(changed_records[rl[1]]) = d
        /\ rl[2] <= Len(changed_records[rl[1]].colrev_origin)
        /\ changed_records[rl[1]].colrev_origin[rl[2]]
              \in Range(prior_records_dict[p].colrev_origin)}

\* the dicts of the changed records as the pass leaves them
ChangedDicts ==
    {prep_del(changed_records[r]) :
        r \in {q \in 1..Len(changed_records) :
                  changed_records[q].changed_in_target_commit}}

\* C21: preparation validation scores exactly one pair (prior, current) for
\* every changed record, every origin token of it and every prior record
\* that carries the token; a record that is not changed is never scored.
C21_PrepPairsScored ==
    [][PrepValidationStep =>
        /\ \A k \in 1..Len(change_diff') :
              /\ change_diff'[k].e2 \in ChangedDicts
              /\ change_diff'[k].e1 \in Range(prior_records_dict)
              /\ change_diff'[k].similarity =
                    get_record_similarity(change_diff'[k].e2, change_diff'[k].e1)
        /\ \A p \in 1..Len(prior_records_dict), d \in ChangedDicts :
              Cardinality({k \in 1..Len(change_diff') :
                              /\ change_diff'[k].e1 = prior_records_dict[p]
                              /\ change_diff'[k].e2 = d})
                 = Cardinality(ScoredPlaces(p, d))]_vars

C21_Witness ==
    /\ pc = "returned"
    /\ scope = "prepare"
    /\ Len(prior_records_dict) > Len(OriginTokens)
    /\ \E r \in 1..Len(changed_records) :
         /\ changed_records[r].colrev_status = "md_processed"
         /\ changed_records[r].colrev_origin[1] = OriginTokens[1]
    /\ \E k \in 1..Len(change_diff) :
         /\ change_diff[k].e1 = SecondCarrier
         /\ Len(change_diff[k].e2.colrev_origin) = 2
    /\ Len(change_diff) = 3

\* the list of findings is the one preparation validation returned
PrepFindings == pc = "prepared" \/ (pc = "returned" /\ scope = "prepare")

\* C23: a current record whose content is identical to the prior record
\* carrying the same origin is scored but produces no finding in
\* preparation validation.
C23_IdenticalNoFinding ==
    PrepFindings =>
        /\ \A k \in 1..Len(validation_details) :
              validation_details[k].e1.content # validation_details[k].e2.content
        /\ \A k \in 1..Len(change_diff) :
              change_diff[k].e1.content = change_diff[k].e2.content
                  => change_diff[k] \notin Range(validation_details)

C23_Witness ==
    /\ PrepFindings
    /\ \E k \in 1..Len(change_diff) :
         /\ change_diff[k].e1.content = change_diff[k].e2.content
         /\ change_diff[k].e2.colrev_origin = change_diff[k].e1.colrev_origin
    /\ validation_details # <<>>

\* C29 (as claimed): the preparation pass of scope 'all' leaves the set of
\* changed records as it was for the merge pass, and the list scope 'all'
\* returns holds every finding the preparation pass returned.
C29_AllCoversBoth ==
    [][/\ (pc = "main" /\ pc' = "prepared") =>
             \A r \in 1..Len(changed_records) :
                 changed_records'[r].changed_in_target_commit
                     = changed_records[r].changed_in_target_commit
       /\ (pc = "prepared" /\ pc' = "returned") =>
             \A k \in 1..Len(validation_details) :
                 validation_details[k] \in Range(validation_details')]_vars

\* ------------------------------------- Validate.__load_prior_records_dict
MaxCommits == 3

\* the commits touching the records file, named by their age (1 is the
\* oldest)
Commits == 1..MaxCommits

\* iter_commits(paths=RECORDS_FILE_RELATIVE): most recent first
Revlists ==
    {s \in UNION {[1..n -> Commits] : n \in 0..MaxCommits} :
        \A i, j \in 1..Len(s) : i < j => s[i] > s[j]}

\* load_records_dict(load_str=filecontents) of a commit: the records file
\* as that commit left it
snapshot(commit_id) ==
    [i \in 1..Len(OriginTokens) |->
        [ID |-> i, colrev_origin |-> <<OriginTokens[i]>>,
         content |-> (i + commit_id) % (MaxContent + 1)]]

found_target_commit_true == TRUE

\* line 38
found_target_commit_init == FALSE

\* lines 39-47: the commit whose content is loaded, <<>> when the loop ends
\* without a break
RECURSIVE walk(_, _)
walk(i, found_target_commit) ==
    IF i > Len(revlist) THEN <<>>
    ELSE IF revlist[i] = target_commit THEN walk(i + 1, TRUE)
    ELSE IF ~found_target_commit THEN walk(i + 1, found_target_commit)
    ELSE <<revlist[i]>>

InitLoad ==
    /\ records = <<>>
    /\ settings = SettingsDefaults
    /\ settings_arg = SettingsDefaults
    /\ force_mode = FALSE
    /\ pc = "load"
    /\ NoDedupeRun
    /\ colrev_origin = <<>>
    /\ removed = {}
    /\ source = NoSource
    /\ dblp_feed = {}
    /\ NoWorkers
    /\ changed_records = <<>>
    /\ prior_records_dict = <<>>
    /\ scope \in {"prepare", "merge"}
    /\ change_diff = <<>>
    /\ validation_details = <<>>
    /\ revlist \in Revlists
    /\ target_commit \in {EmptyTarget} \cup Commits
    /\ loaded_commits = <<>>

\* __load_prior_records_dict returns, line 48
LoadPriorRecordsDict ==
    /\ pc = "load"
    /\ walk(1, found_target_commit_init) # <<>>
    /\ loaded_commits' = loaded_commits \o walk(1, found_target_commit_init)
    /\ prior_records_dict' = snapshot(walk(1, found_target_commit_init)[1])
    /\ pc' = "loaded"
    /\ UNCHANGED <<records, dedupe_vars, store_vars, construct_vars, prep_vars,
                   changed_records, scope, change_diff, validation_details,
                   revlist, target_commit>>

\* line 48 reads prior_records_dict, which was never assigned
LoadPriorRecordsDictRaises ==
    /\ pc = "load"
    /\ walk(1, found_target_commit_init) = <<>>
    /\ pc' = "UnboundLocalError"
    /\ UNCHANGED <<records, dedupe_vars, store_vars, construct_vars, prep_vars,
                   validate_vars>>

NextLoad ==
    \/ LoadPriorRecordsDict
    \/ LoadPriorRecordsDictRaises

SpecLoad == InitLoad /\ [][NextLoad]_vars

\* the places of the target commit in the commit list
TargetPlaces == {i \in 1..Len(revlist) : revlist[i] = target_commit}

\* C22: the prior snapshot is the content of the commit directly after the
\* target commit in the most-recent-first list, and the content of no other
\* commit is loaded.
C22_PriorIsNextOlderCommit ==
    pc = "loaded" =>
        \E i \in TargetPlaces :
            /\ i < Len(revlist)
            /\ loaded_commits = <<revlist[i + 1]>>
            /\ prior_records_dict = snapshot(revlist[i + 1])
            /\ revlist[i + 1] < target_commit

C22_Witness ==
    /\ pc = "loaded"
    /\ Len(revlist) = 3
    /\ target_commit = revlist[2]
    /\ loaded_commits = <<revlist[3]>>
    /\ prior_records_dict # snapshot(revlist[1])
    /\ prior_records_dict # snapshot(revlist[2])

\* C30: the load returns a mapping only when the target commit is in the
\* commit list and an older commit follows it; when the target is the oldest
\* commit of the list, or not in the list, or the empty default, the call
\* raises and nothing is loaded.
C30_LoadFailsWithoutPrior ==
    /\ pc = "loaded" =>
          /\ TargetPlaces # {}
          /\ \A i \in TargetPlaces : i < Len(revlist)
          /\ prior_records_dict # <<>>
    /\ ( /\ pc # "load"
         /\ \/ TargetPlaces = {}
            \/ target_commit = EmptyTarget
            \/ revlist[Len(revlist)] = target_commit ) =>
          /\ pc = "UnboundLocalError"
          /\ prior_records_dict = <<>>
          /\ loaded_commits = <<>>

C30_Witness ==
    /\ pc = "UnboundLocalError"
    /\ Len(revlist) >= 2
    /\ revlist[Len(revlist)] = target_commit

\* ------------- get_masterdata_from_dblp, step by step, by several workers
MaxWorkers == 2

\* the preparation workers; worker w prepares record w
Workers == 1..MaxWorkers

\* the errors a step of the call can raise
RetrievalErrors ==
    {"RequestException", "UnicodeEncodeError", "ServiceNotAvailableException"}
SectionErrors == {"OSError", "UnicodeEncodeError"}

IsCaught_none(exc) == FALSE

\* line 701: except (requests.exceptions.RequestException, UnicodeEncodeError)
IsCaught(exc) == exc \in {"RequestException", "UnicodeEncodeError"}

\* a worker before the call; entry is the matching DBLP entry, feed the
\* GeneralOriginFeed object of the call, lookups the number of DBLP queries
Idle ==
    [pc |-> "call", entry |-> 0, feed |-> {}, exc |-> "", lookups |-> 0]

\* the call of a worker is over
Terminal ==
    {"returned_linked", "returned_nomatch", "returned_error", "returned_merged",
     "raised", "TimeoutError"}

\* lines 669-697, between acquire and release
InSection == {"load_feed", "merge", "save"}

InitDblp ==
    /\ records = [w \in Workers |-> [colrev_status |-> "md_imported", content |-> 0]]
    /\ colrev_origin \in
          {[w \in Workers |->
               IF w \in linked THEN <<own_origin(w), dblp_origin(1)>>
               ELSE <<own_origin(w)>>] : linked \in SUBSET Workers}
    /\ settings = SettingsDefaults
    /\ settings_arg = SettingsDefaults
    /\ force_mode = FALSE
    /\ pc = "prep"
    /\ NoDedupeRun
    /\ removed = {}
    /\ source = NoSource
    /\ dblp_feed = {}
    /\ dblp_lock = LockFree
    /\ workers = [w \in Workers |-> Idle]
    /\ NoValidation

\* what the steps of a worker leave alone
WorkerFrame ==
    UNCHANGED <<pc, removed, dedupe_vars, construct_vars, validate_vars>>

\* the handling of an exception raised inside the try block, lines 638-702
raise(w, exc) ==
    workers' = [workers EXCEPT ![w].exc = exc, ![w].lookups = 1,
                   ![w].pc = IF IsCaught(exc) THEN "returned_error" ELSE "raised"]

\* lines 631-633
ReturnLinked ==
  \E w \in Workers :
    /\ workers[w].pc = "call"
    /\ LinkedToDblp(w)
    /\ workers' = [workers EXCEPT ![w].pc = "returned_linked"]
    /\ UNCHANGED <<records, store_vars, dblp_feed, dblp_lock>>
    /\ WorkerFrame

\* lines 652-655: __retrieve_dblp_records raises
RetrieveFails ==
  \E w \in Workers, exc \in RetrievalErrors :
    /\ workers[w].pc = "call"
    /\ ~LinkedToDblp(w)
    /\ raise(w, exc)
    /\ UNCHANGED <<records, store_vars, dblp_feed, dblp_lock>>
    /\ WorkerFrame

\* lines 652-660: no retrieved record is similar enough
RetrieveNoMatch ==
  \E w \in Workers :
    /\ workers[w].pc = "call"
    /\ ~LinkedToDblp(w)
    /\ workers' = [workers EXCEPT ![w].pc = "returned_nomatch", ![w].lookups = 1]
    /\ UNCHANGED <<records, store_vars, dblp_feed, dblp_lock>>
    /\ WorkerFrame

\* lines 652-660: entry k is the first retrieved record that is similar
\* enough
RetrieveMatch ==
  \E w \in Workers, k \in DblpEntries :
    /\ workers[w].pc = "call"
    /\ ~LinkedToDblp(w)
    /\ workers' = [workers EXCEPT ![w].pc = "acquire", ![w].entry = k,
                                  ![w].lookups = 1]
    /\ UNCHANGED <<records, store_vars, dblp_feed, dblp_lock>>
    /\ WorkerFrame

\* line 667: acquire(timeout=60) gets the lock
Acquire ==
  \E w \in Workers :
    /\ workers[w].pc = "acquire"
    /\ dblp_lock = LockFree
    /\ dblp_lock' = w
    /\ workers' = [workers EXCEPT ![w].pc = "load_feed"]
    /\ UNCHANGED <<records, store_vars, dblp_feed>>
    /\ WorkerFrame

\* line 667: the lock is held for the whole timeout, acquire returns False
\* and the result is not looked at
AcquireTimesOut ==
  \E w \in Workers :
    /\ workers[w].pc = "acquire"
    /\ dblp_lock # LockFree
    /\ workers' = [workers EXCEPT ![w].pc = "load_feed"]
    /\ UNCHANGED <<records, store_vars, dblp_feed, dblp_lock>>
    /\ WorkerFrame

\* lines 670-679: the feed file is loaded, the entry is added to the object
LoadFeed ==
  \E w \in Workers :
    /\ workers[w].pc = "load_feed"
    /\ workers' = [workers EXCEPT ![w].pc = "merge",
                                  ![w].feed = dblp_feed \cup {workers[w].entry}]
    /\ UNCHANGED <<records, store_vars, dblp_feed, dblp_lock>>
    /\ WorkerFrame

\* lines 681-694
MergeRecord ==
  \E w \in Workers, withdrawn \in BOOLEAN :
    /\ workers[w].pc = "merge"
    /\ colrev_origin' =
          [colrev_origin EXCEPT ![w] =
              merge(colrev_origin[w], <<dblp_origin(workers[w].entry)>>)]
    /\ records' =
          [records EXCEPT ![w].colrev_status =
              IF withdrawn THEN "rev_prescreen_excluded"
              ELSE advance(records[w].colrev_status, "md_prepared")]
    /\ workers' = [workers EXCEPT ![w].pc = "save"]
    /\ UNCHANGED <<removed, dblp_feed, dblp_lock>>
    /\ WorkerFrame

\* line 696
SaveFeedFile ==
  \E w \in Workers :
    /\ workers[w].pc = "save"
    /\ dblp_feed' = workers[w].feed
    /\ workers' = [workers EXCEPT ![w].pc = "release"]
    /\ UNCHANGED <<records, store_vars, dblp_lock>>
    /\ WorkerFrame

\* lines 670-696: a step between acquire and release raises
SectionFails ==
  \E w \in Workers, exc \in SectionErrors :
    /\ workers[w].pc \in InSection
    /\ raise(w, exc)
    /\ UNCHANGED <<records, store_vars, dblp_feed, dblp_lock>>
    /\ WorkerFrame

\* lines 697-698: release of a held lock, whoever acquired it
Release ==
  \E w \in Workers :
    /\ workers[w].pc = "release"
    /\ dblp_lock # LockFree
    /\ dblp_lock' = LockFree
    /\ workers' = [workers EXCEPT ![w].pc = "returned_merged"]
    /\ UNCHANGED <<records, store_vars, dblp_feed>>
    /\ WorkerFrame

\* line 697: release of a lock that is not held raises ValueError
ReleaseUnlocked ==
  \E w \in Workers :
    /\ workers[w].pc = "release"
    /\ dblp_lock = LockFree
    /\ raise(w, "ValueError")
    /\ UNCHANGED <<records, store_vars, dblp_feed, dblp_lock>>
    /\ WorkerFrame

\* DBLPMetadataPrep.prepare: the timeout of the decorator ends the call
PrepareTimesOut ==
  \E w \in Workers :
    /\ workers[w].pc \notin Terminal
    /\ workers[w].pc # "call"
    /\ workers' = [workers EXCEPT ![w].pc = "TimeoutError"]
    /\ UNCHANGED <<records, store_vars, dblp_feed, dblp_lock>>
    /\ WorkerFrame

NextDblp ==
    \/ ReturnLinked
    \/ RetrieveFails
    \/ RetrieveNoMatch
    \/ RetrieveMatch
    \/ Acquire
    \/ AcquireTimesOut
    \/ LoadFeed
    \/ MergeRecord
    \/ SaveFeedFile
    \/ SectionFails
    \/ Release
    \/ ReleaseUnlocked
    \/ PrepareTimesOut

SpecDblp == InitDblp /\ [][NextDblp]_vars

\* C24 (as claimed): when the call of a worker is over, by return or by an
\* error, the feed lock is not held by that worker.
C24_LockReleasedOnExit ==
    \A w \in Workers : workers[w].pc \in Terminal => dblp_lock # w

\* C25 (as claimed): at most one worker is between acquire and release, and
\* a worker that is there or about to release acquired the lock itself.
C25_OneWorkerInSection ==
    /\ Cardinality({w \in Workers : workers[w].pc \in InSection}) <= 1
    /\ \A w \in Workers :
          workers[w].pc \in InSection \cup {"release"} => dblp_lock = w

\* C26, the outcome: a request error ends the call by a return, with the
\* record of the worker as it was before the call and no entry taken; a
\* record that carries a DBLP origin is returned without a lookup.
C26_Outcome ==
    \A w \in Workers :
        /\ workers[w].exc = "RequestException" =>
              /\ workers[w].pc = "returned_error"
              /\ colrev_origin[w] = <<own_origin(w)>>
              /\ records[w].colrev_status = "md_imported"
              /\ workers[w].entry = 0
        /\ workers[w].pc = "returned_linked" =>
              /\ workers[w].lookups = 0
              /\ LinkedToDblp(w)
        /\ ( /\ workers[w].lookups > 0
             /\ workers[w].pc \in {"acquire", "load_feed", "merge", "returned_nomatch"} )
              => ~LinkedToDblp(w)

\* C26, the step: the return after a request error, or for a linked record,
\* changes no record, no origin, not the feed and not the lock.
C26_Step ==
    \A w \in Workers :
        ( /\ workers[w].pc = "call"
          /\ workers'[w].pc \in {"returned_error", "returned_linked"} ) =>
            UNCHANGED <<records, colrev_origin, removed, dblp_feed, dblp_lock>>

\* C26: a request error of the DBLP service makes get_masterdata_from_dblp
\* return the record unchanged, no exception reaches the caller; a record
\* with a DBLP origin is returned unchanged without any lookup.
C26_RequestErrorDegrades == []C26_Outcome /\ [][C26_Step]_vars

C26_Witness ==
    \E w, v \in Workers :
        /\ workers[w].pc = "returned_error"
        /\ workers[w].exc = "RequestException"
        /\ workers[w].lookups = 1
        /\ workers[v].pc = "returned_linked"

\* ---------------------------------------------- classification before store
\* a step that changes the record store or its history
StoreChanges ==
    \/ records' # records
    \/ colrev_origin' # colrev_origin
    \/ removed' # removed
    \/ merges_applied' # merges_applied
    \/ commits' # commits

\* every pending record has its decision in dedupe_batch_results
AllPendingClassified ==
    \A id \in PendingIds :
        \E k \in 1..Len(dedupe_batch_results) : dedupe_batch_results[k].ID1 = id

BeforeStoreOperations ==
    pc \in {"start", "raised", "batch", "classify"} =>
        /\ merges_applied = <<>>
        /\ commits = <<>>
        /\ removed = {}

\* C28: in run_dedupe every pending record is classified before the first
\* operation that changes the record store (apply_merges, create_commit);
\* up to the end of the classification no merge is applied, no record is
\* removed and no commit is created.
C28_ClassifiedBeforeStoreChange ==
    /\ []BeforeStoreOperations
    /\ [][StoreChanges => (pc # "start" /\ pc # "batch" /\ AllPendingClassified)]_vars

C28_Witness ==
    /\ pc = "commit"
    /\ removed # {}
    /\ Len(dedupe_batch_results) >= 2
    /\ Len(merges_applied) = 1
    /\ commits = <<>>

\* ------------------------------------------------------ validate_source
\* the SearchSources handed to validate_source: the keys of
\* search_parameters and of search_parameters["scope"], whether the
\* source_identifier is the connector's, whether the query starts with the
\* API URL, whether the source is a metadata source, whether query_file is
\* a file
SearchSources ==
    [endpoint : {"dblp", "ieee"},
     source_identifier_ok : BOOLEAN,
     search_parameters : SUBSET {"scope", "query", "query_file"},
     scope : SUBSET {"venue_key", "journal_abbreviated"},
     query_ok : BOOLEAN,
     is_md_source : BOOLEAN,
     is_file : BOOLEAN]

scope_complete_venue_only(src) == "venue_key" \in src.scope

\* dblp.py lines 353-361
scope_complete(src) ==
    "venue_key" \in src.scope /\ "journal_abbreviated" \in src.scope

\* DBLPSearchSource.validate_source: how the call ends
dblp_validate_source(src) ==
    IF ~src.source_identifier_ok THEN "InvalidQueryException"
    ELSE IF "scope" \in src.search_parameters
         THEN IF scope_complete(src) THEN "validated" ELSE "InvalidQueryException"
    ELSE IF "query" \in src.search_parameters
         THEN IF src.query_ok THEN "validated" ELSE "AssertionError"
    ELSE IF src.is_md_source THEN "validated"
    ELSE "InvalidQueryException"

\* IEEEXploreSearchSource.validate_source: how the call ends
ieee_validate_source(src) ==
    IF "query_file" \notin src.search_parameters THEN "InvalidQueryException"
    ELSE IF ~src.is_file THEN "InvalidQueryException"
    ELSE "validated"

validate_source(src) ==
    IF src.endpoint = "dblp" THEN dblp_validate_source(src)
    ELSE ieee_validate_source(src)

InitSource ==
    /\ records = <<>>
    /\ settings = SettingsDefaults
    /\ settings_arg = SettingsDefaults
    /\ source \in SearchSources
    /\ force_mode = FALSE
    /\ pc = "validate_source"
    /\ NoDedupeRun
    /\ colrev_origin = <<>>
    /\ removed = {}
    /\ dblp_feed = {}
    /\ NoWorkers
    /\ NoValidation

\* validate_source returns
ValidateSource ==
    /\ pc = "validate_source"
    /\ validate_source(source) = "validated"
    /\ pc' = "validated"
    /\ UNCHANGED <<records, dedupe_vars, store_vars, construct_vars, prep_vars,
                   validate_vars>>

\* validate_source raises
ValidateSourceRaises ==
    /\ pc = "validate_source"
    /\ validate_source(source) # "validated"
    /\ pc' = validate_source(source)
    /\ UNCHANGED <<records, dedupe_vars, store_vars, construct_vars, prep_vars,
                   validate_vars>>

NextSource ==
    \/ ValidateSource
    \/ ValidateSourceRaises

SpecSource == InitSource /\ [][NextSource]_vars

\* a required search parameter of the source is missing, or its
\* source_identifier is wrong
ParameterMissing ==
    IF source.endpoint = "dblp"
    THEN \/ ~source.source_identifier_ok
         \/ /\ "scope" \in source.search_parameters
            /\ \/ "venue_key" \notin source.scope
               \/ "journal_abbreviated" \notin source.scope
         \/ /\ "scope" \notin source.search_parameters
            /\ "query" \notin source.search_parameters
            /\ ~source.is_md_source
    ELSE "query_file" \notin source.search_parameters

\* a parameter that is present is not usable: the DBLP query does not start
\* with the API URL, the IEEE query_file is not a file
ParameterInvalid ==
    IF source.endpoint = "dblp"
    THEN /\ "scope" \notin source.search_parameters
         /\ "query" \in source.search_parameters
         /\ ~source.query_ok
    ELSE /\ "query_file" \in source.search_parameters
         /\ ~source.is_file

SourceChecked == pc # "validate_source"

\* C27 (as claimed): validate_source raises when a required search
\* parameter is missing and returns normally when the required parameters
\* are present.
C27_RejectsIffMissing ==
    SourceChecked =>
        /\ ParameterMissing => pc # "validated"
        /\ ~ParameterMissing => pc = "validated"

\* C27 (amended): validate_source raises InvalidQueryException when a
\* required search parameter is missing; with the parameters present it
\* returns normally unless the DBLP query does not start with the API URL
\* (AssertionError) or the IEEE query_file is not a file
\* (InvalidQueryException).
C27_RejectsMissingOrInvalid ==
    SourceChecked =>
        /\ ParameterMissing => pc = "InvalidQueryException"
        /\ (~ParameterMissing /\ ~ParameterInvalid) => pc = "validated"
        /\ (source.source_identifier_ok /\ ParameterInvalid) =>
              pc = IF source.endpoint = "dblp" THEN "AssertionError"
                   ELSE "InvalidQueryException"

C27_Witness ==
    /\ pc = "InvalidQueryException"
    /\ source.endpoint = "ieee"
    /\ "query_file" \in source.search_parameters
    /\ ~source.is_file
====
